---------------------------- MODULE Spec2Model ----------------------------
(***************************************************************************)
(* StarFive camera subsystem, VIN module (stf_vin.c): the per-line output  *)
(* buffer engine, the dummy buffer pool, and the stream / power reference  *)
(* counters.                                                               *)
(*                                                                         *)
(* One capture line (line_id) has its output engine modelled in full; the  *)
(* power counters are kept for both lines because they share the device    *)
(* power count.  Every C function that changes state is an operator from   *)
(* the old struct value to the new one (plus the hardware calls it made),  *)
(* and every entry point of the driver is one action.                      *)
(***************************************************************************)
EXTENDS Integers, Sequences, FiniteSets, TLC

(***************************************************************************)
(* Bounds of the model.                                                    *)
(***************************************************************************)
\* number of distinct descriptors the framework ever queues (1..MaxBufs)
MaxBufs == 3
\* stream-on calls are made while the stream counts are below MaxStream
MaxStream == 2
\* power-on calls are made while the line's power count is below MaxPower
MaxPower == 1

(***************************************************************************)
(* Program constants.                                                      *)
(***************************************************************************)
VIN_LINE_WR == 0
VIN_LINE_ISP == 1
VIN_LINE_MAX == 2
STF_ISP_LINE_INVALID == 0 - 1
STF_ISP_LINE_SRC == 1
STF_VIN_PAD_SINK == 0
STF_ISP_PAD_SINK == 0
STF_ISP_PAD_SRC == 1
STF_DUMMY_VIN == 0
STF_DUMMY_ISP == 1
VIN_DUMMY_BUFFER_NUMS == 1
ISP_DUMMY_BUFFER_NUMS == 2

Lines == {VIN_LINE_WR, VIN_LINE_ISP}
Links == {"LINK_ERROR", "LINK_CSI_TO_WR", "LINK_CSI_TO_ISP"}
OutputStates ==
  {"OFF", "RESERVED", "SINGLE", "CONTINUOUS", "IDLE", "STOPPING"}
Vb2States == {"DONE", "ERROR", "QUEUED"}

\* a NULL struct stfcamss_buffer pointer; descriptors are 1..MaxBufs
NULL == 0
Bufs == 1 .. MaxBufs
\* ktime_get_ns() values a completion handler may read
Times == {1, 2}

\* the plane addresses (addr[0], addr[1]) the framework gave descriptor b
BufAddr(b) == <<4 * b, 4 * b + 2>>
\* what dma_alloc_coherent returns for dummy_buffer->buffer[i]
DmaAllocAddr(i) == 4 * (MaxBufs + 1 + i)
\* aligns * fmt->height: the offset of the second plane in a dummy buffer
PlaneOffset == 2

VARIABLES
  line_id,          \* line->id of the line whose output is modelled
  remote_link,      \* what vin_get_link returns for each line's entity
  lists_init,       \* INIT_LIST_HEAD has run on pending_bufs / ready_bufs
  output,           \* struct vin_output of the line
  dummy_buffer,     \* vin_dev->dummy_buffer[vin_line_to_dummy_module(line)]
  stream_count,     \* line->stream_count
  power_count,      \* line->power_count, for each line
  dev_power_count,  \* vin_dev->power_count
  clk_enabled,      \* stf_vin_clk_enable ... stf_vin_clk_disable
  sink,             \* the address registers: <<ping, pong>> or <<y, uv>>
  held,             \* descriptors queued and not yet given to vb2_buffer_done
  next_buf,         \* the next descriptor the framework queues
  last_installed,   \* descriptor whose address was last written to the sink
  op,               \* the entry point that ran last
  ret,              \* the vb2_buffer_done calls of that run, in order
  hw,               \* the hardware calls of that run, in order
  scen,             \* how far the run has followed the spec's scenario
  pc,               \* where an interrupt handler in flight stands, and its ts
  output_lock       \* holder of line->output_lock, or "free"

vars == <<line_id, remote_link,
          lists_init, output, dummy_buffer, stream_count,
          power_count, dev_power_count, clk_enabled, sink, held, next_buf,
          last_installed, op, ret, hw, scen,
          pc, output_lock>>

(***************************************************************************)
(* Small helpers.                                                          *)
(***************************************************************************)
SeqToSet(s) == {s[i] : i \in 1 .. Len(s)}

RECURSIVE SeqMap(_, _)
\* the sequence of Op-images of s; Op is given as a function
SeqMap(f, s) == IF s = <<>> THEN <<>> ELSE <<f[Head(s)]>> \o SeqMap(f, Tail(s))

HwCall(fn, by, a0, a1) == [fn |-> fn, by |-> by, a0 |-> a0, a1 |-> a1]
Vb2Done(b, st, sq, ts) == [buf |-> b, state |-> st, sequence |-> sq, ts |-> ts]

\* the address writes among a run's hardware calls
AddrFns == {"stf_vin_wr_set_ping_addr", "stf_vin_wr_set_pong_addr",
            "stf_vin_isp_set_yuv_addr"}
SinkWrites(calls) == SelectSeq(calls, LAMBDA c : c.fn \in AddrFns)

\* the register values after the calls, starting from s
RECURSIVE ApplyCalls(_, _)
ApplyCalls(s, calls) ==
  IF calls = <<>> THEN s
  ELSE LET c == Head(calls)
           s1 == IF c.fn = "stf_vin_wr_set_ping_addr" THEN <<c.a0, s[2]>>
                 ELSE IF c.fn = "stf_vin_wr_set_pong_addr" THEN <<s[1], c.a0>>
                 ELSE IF c.fn = "stf_vin_isp_set_yuv_addr" THEN <<c.a0, c.a1>>
                 ELSE s
       IN ApplyCalls(s1, Tail(calls))


\* the descriptor whose first plane address is a, NULL for any other address
BufOfAddr(a) ==
  IF \E b \in Bufs : BufAddr(b)[1] = a
  THEN CHOOSE b \in Bufs : BufAddr(b)[1] = a
  ELSE NULL

\* the descriptor of the last descriptor-address write among calls, else old
LastInstalled(old, calls) ==
  LET w == SelectSeq(SinkWrites(calls), LAMBDA c : BufOfAddr(c.a0) # NULL)
  IN IF w = <<>> THEN old ELSE BufOfAddr(w[Len(w)].a0)

(***************************************************************************)
(* Line and link helpers.                                                  *)
(***************************************************************************)
vin_map_isp_line(line) ==
  IF line > VIN_LINE_WR /\ line < VIN_LINE_MAX
  THEN STF_ISP_LINE_SRC
  ELSE STF_ISP_LINE_INVALID

stf_vin_map_isp_pad(line, def) ==
  IF line = VIN_LINE_WR THEN STF_ISP_PAD_SINK
  ELSE IF line > VIN_LINE_WR /\ line < VIN_LINE_MAX THEN vin_map_isp_line(line)
  ELSE def

vin_line_to_dummy_module(line) ==
  IF line = VIN_LINE_WR THEN STF_DUMMY_VIN
  ELSE IF line = VIN_LINE_ISP THEN STF_DUMMY_ISP
  ELSE STF_DUMMY_VIN

\* what vin_get_link can return for a line: its upstream link, or LINK_ERROR
vin_get_link(line) ==
  {"LINK_ERROR",
   IF vin_map_isp_line(line) = STF_ISP_LINE_SRC
   THEN "LINK_CSI_TO_ISP" ELSE "LINK_CSI_TO_WR"}

\* the address registers a line feeds: Y/UV for the ISP line, ping/pong for WR
AddrSwitch(line, by, a) ==
  IF vin_map_isp_line(line) = STF_ISP_LINE_SRC
  THEN <<HwCall("stf_vin_isp_set_yuv_addr", by, a[1], a[2])>>
  ELSE IF line = VIN_LINE_WR
       THEN <<HwCall("stf_vin_wr_set_ping_addr", by, a[1], 0),
              HwCall("stf_vin_wr_set_pong_addr", by, a[1], 0)>>
       ELSE <<>>

(***************************************************************************)
(* The pending and ready lists.                                            *)
(***************************************************************************)
\* vin_buf_add_ready that drops the descriptor
vin_buf_add_ready_drop(o, buffer) == o

vin_buf_add_ready(o, buffer) ==
  [o EXCEPT !.ready_bufs = Append(@, buffer)]

\* [buffer: the first entry or NULL, out: the output with it unlinked]
\* vin_buf_get_ready taking the last entry of the list
vin_buf_get_ready_last(o) ==
  IF o.ready_bufs # <<>>
  THEN [buffer |-> o.ready_bufs[Len(o.ready_bufs)],
        out |-> [o EXCEPT !.ready_bufs = SubSeq(@, 1, Len(@) - 1)]]
  ELSE [buffer |-> NULL, out |-> o]

vin_buf_get_ready(o) ==
  IF o.ready_bufs # <<>>
  THEN [buffer |-> Head(o.ready_bufs),
        out |-> [o EXCEPT !.ready_bufs = Tail(@)]]
  ELSE [buffer |-> NULL, out |-> o]

\* vin_buf_add_pending adding at the head of the list
vin_buf_add_pending_head(o, buffer) ==
  [o EXCEPT !.pending_bufs = <<buffer>> \o @]

vin_buf_add_pending(o, buffer) ==
  [o EXCEPT !.pending_bufs = Append(@, buffer)]

\* vin_buf_get_pending taking the last entry of the list
vin_buf_get_pending_last(o) ==
  IF o.pending_bufs # <<>>
  THEN [buffer |-> o.pending_bufs[Len(o.pending_bufs)],
        out |-> [o EXCEPT !.pending_bufs =
                   SubSeq(@, 1, Len(@) - 1)]]
  ELSE [buffer |-> NULL, out |-> o]

\* vin_buf_get_pending without the list_del
vin_buf_get_pending_keep(o) ==
  IF o.pending_bufs # <<>>
  THEN [buffer |-> Head(o.pending_bufs), out |-> o]
  ELSE [buffer |-> NULL, out |-> o]

vin_buf_get_pending(o) ==
  IF o.pending_bufs # <<>>
  THEN [buffer |-> Head(o.pending_bufs),
        out |-> [o EXCEPT !.pending_bufs = Tail(@)]]
  ELSE [buffer |-> NULL, out |-> o]

(***************************************************************************)
(* The output state machine.                                               *)
(***************************************************************************)
\* vin_output_init_addrs writing a null address when slot 0 is empty
vin_output_init_addrs_null(line, o) ==
  LET o1 == [o EXCEPT !.active_buf = 0]
  IN [out |-> o1,
      hw |-> AddrSwitch(line, "vin_output_init_addrs",
                        IF o1.buf[0] # NULL THEN BufAddr(o1.buf[0])
                        ELSE <<0, 0>>)]

\* [out, hw]: active_buf reset, and slot 0's address written if it holds one
vin_output_init_addrs(line, o) ==
  LET o1 == [o EXCEPT !.active_buf = 0]
  IN IF o1.buf[0] # NULL
     THEN [out |-> o1,
           hw |-> AddrSwitch(line, "vin_output_init_addrs",
                             BufAddr(o1.buf[0]))]
     ELSE [out |-> o1, hw |-> <<>>]

vin_init_outputs(o) ==
  [o EXCEPT !.state = "OFF",
            !.buf = [i \in 0 .. 1 |-> NULL],
            !.active_buf = 0,
            !.pending_bufs = <<>>,
            !.ready_bufs = <<>>]

\* vin_enable_output that fills both slots from pending
vin_enable_output_both(line, o) ==
  LET o1 == [o EXCEPT !.state = "IDLE"]
      g == vin_buf_get_pending(o1)
      o2 == [g.out EXCEPT !.buf[0] = g.buffer]
      h == vin_buf_get_pending(o2)
      o3 == [h.out EXCEPT !.buf[1] = h.buffer]
      o4 == IF o3.buf[0] # NULL /\ o3.buf[1] # NULL
            THEN [o3 EXCEPT !.state = "CONTINUOUS"]
            ELSE IF o3.buf[0] # NULL
                 THEN [o3 EXCEPT !.state = "SINGLE"]
                 ELSE o3
      o5 == [o4 EXCEPT !.sequence = 0]
  IN vin_output_init_addrs(line, o5)

vin_enable_output(line, o) ==
  LET o1 == [o EXCEPT !.state = "IDLE"]
      g == vin_buf_get_pending(o1)
      o2 == [g.out EXCEPT !.buf[0] = g.buffer]
      o3 == IF o2.buf[0] = NULL /\ o2.buf[1] # NULL
            THEN [o2 EXCEPT !.buf[0] = o2.buf[1], !.buf[1] = NULL]
            ELSE o2
      o4 == IF o3.buf[0] # NULL THEN [o3 EXCEPT !.state = "SINGLE"] ELSE o3
      o5 == [o4 EXCEPT !.sequence = 0]
  IN vin_output_init_addrs(line, o5)

vin_disable_output(o) ==
  [o EXCEPT !.state = "OFF"]

\* vin_buf_update_on_last that stays in SINGLE when nothing is pending
vin_buf_update_on_last_single(o) ==
  IF o.state = "CONTINUOUS"
  THEN [o EXCEPT !.state = "SINGLE", !.active_buf = 1 - @]
  ELSE o

vin_buf_update_on_last(o) ==
  IF o.state = "CONTINUOUS"
  THEN [o EXCEPT !.state = "SINGLE", !.active_buf = 1 - @]
  ELSE IF o.state = "SINGLE"
       THEN [o EXCEPT !.state = "STOPPING"]
       ELSE o

vin_buf_update_on_next(o) ==
  IF o.state = "CONTINUOUS"
  THEN [o EXCEPT !.active_buf = 1 - @]
  ELSE o

\* vin_buf_update_on_new whose STOPPING case does not restore last_buffer
vin_buf_update_on_new_norestore(line, o, new_buf) ==
  IF o.state = "IDLE" /\ o.buf[0] = NULL
  THEN LET r == vin_output_init_addrs(line, [o EXCEPT !.buf[0] = new_buf])
       IN [out |-> [r.out EXCEPT !.state = "SINGLE"], hw |-> r.hw]
  ELSE IF o.state = "STOPPING"
  THEN [out |-> vin_buf_add_pending([o EXCEPT !.state = "SINGLE"], new_buf),
        hw |-> <<>>]
  ELSE [out |-> vin_buf_add_pending(o, new_buf), hw |-> <<>>]

\* [out, hw]
vin_buf_update_on_new(line, o, new_buf) ==
  IF o.state = "SINGLE"
  THEN [out |-> vin_buf_add_pending(o, new_buf), hw |-> <<>>]
  ELSE IF o.state = "IDLE"
  THEN IF o.buf[0] = NULL
       THEN LET r == vin_output_init_addrs(line,
                                           [o EXCEPT !.buf[0] = new_buf])
            IN [out |-> [r.out EXCEPT !.state = "SINGLE"], hw |-> r.hw]
       ELSE [out |-> vin_buf_add_pending(o, new_buf), hw |-> <<>>]
  ELSE IF o.state = "STOPPING"
  THEN LET o1 == IF o.last_buffer # NULL
                 THEN [o EXCEPT !.buf[o.active_buf] = o.last_buffer,
                                !.last_buffer = NULL]
                 ELSE o
           o2 == [o1 EXCEPT !.state = "SINGLE"]
       IN [out |-> vin_buf_add_pending(o2, new_buf), hw |-> <<>>]
  ELSE [out |-> vin_buf_add_pending(o, new_buf), hw |-> <<>>]

\* [out, ret]: both lists walked head to tail, every entry given back
vin_buf_flush(o, state) ==
  [out |-> [o EXCEPT !.pending_bufs = <<>>, !.ready_bufs = <<>>],
   ret |-> [i \in 1 .. Len(o.pending_bufs) |->
              Vb2Done(o.pending_bufs[i], state, 0 - 1, 0)]
           \o [i \in 1 .. Len(o.ready_bufs) |->
              Vb2Done(o.ready_bufs[i], state, 0 - 1, 0)]]

(***************************************************************************)
(* The interrupt handlers, as functions of the output they run on.         *)
(***************************************************************************)
\* the while loop of vin_buffer_done: [out, ret]
RECURSIVE vin_buffer_done_loop(_, _)
vin_buffer_done_loop(o, ts) ==
  LET g == vin_buf_get_ready(o)
  IN IF g.buffer = NULL
     THEN [out |-> o, ret |-> <<>>]
     ELSE LET r == vin_buffer_done_loop(
                     [g.out EXCEPT !.sequence = @ + 1], ts)
          IN [out |-> r.out,
              ret |-> <<Vb2Done(g.buffer, "DONE", g.out.sequence, ts)>>
                      \o r.ret]

\* the unlocked test at the head of vin_buffer_done: TRUE when it returns
vin_buffer_done_gate(o) ==
  o.state = "OFF" \/ o.state = "RESERVED"

\* vin_buffer_done that also completes the frozen last_buffer
vin_buffer_done_last(o, ts) ==
  IF vin_buffer_done_gate(o)
  THEN [out |-> o, ret |-> <<>>]
  ELSE IF o.state = "STOPPING" /\ o.last_buffer # NULL
  THEN vin_buffer_done_loop(
         [vin_buf_add_ready(o, o.last_buffer) EXCEPT !.last_buffer = NULL],
         ts)
  ELSE vin_buffer_done_loop(o, ts)

vin_buffer_done(o, ts) ==
  IF vin_buffer_done_gate(o)
  THEN [out |-> o, ret |-> <<>>]
  ELSE vin_buffer_done_loop(o, ts)

\* the unlocked test at the head of vin_change_buffer: TRUE when it returns
vin_change_buffer_gate(o) ==
  \/ o.state = "OFF"
  \/ o.state = "STOPPING"
  \/ o.state = "RESERVED"
  \/ o.state = "IDLE"

\* vin_change_buffer that hands the last descriptor to the ready list as well
vin_change_buffer_locked_ready(line, o) ==
  LET first == o.active_buf
      active_index == IF o.buf[first] = NULL THEN 1 - first ELSE first
      ready_buf == o.buf[active_index]
  IN IF ready_buf = NULL
     THEN [out |-> o, hw |-> <<>>]
     ELSE LET g == vin_buf_get_pending(o)
              o1 == [g.out EXCEPT !.buf[active_index] = g.buffer]
              new_addr == IF g.buffer = NULL
                          THEN BufAddr(ready_buf)
                          ELSE BufAddr(g.buffer)
              o2 == IF g.buffer = NULL
                    THEN vin_buf_update_on_last(o1)
                    ELSE vin_buf_update_on_next(o1)
          IN IF o2.state = "STOPPING"
             THEN [out |-> vin_buf_add_ready(
                             [o2 EXCEPT !.last_buffer = ready_buf], ready_buf),
                   hw |-> <<>>]
             ELSE [out |-> vin_buf_add_ready(o2, ready_buf),
                   hw |-> AddrSwitch(line, "vin_change_buffer", new_addr)]

\* the part of vin_change_buffer under output_lock: [out, hw]
vin_change_buffer_locked(line, o) ==
  LET first == o.active_buf
      active_index == IF o.buf[first] = NULL THEN 1 - first ELSE first
      ready_buf == o.buf[active_index]
  IN IF ready_buf = NULL
     THEN [out |-> o, hw |-> <<>>]
     ELSE LET g == vin_buf_get_pending(o)
              o1 == [g.out EXCEPT !.buf[active_index] = g.buffer]
              new_addr == IF g.buffer = NULL
                          THEN BufAddr(ready_buf)
                          ELSE BufAddr(g.buffer)
              o2 == IF g.buffer = NULL
                    THEN vin_buf_update_on_last(o1)
                    ELSE vin_buf_update_on_next(o1)
          IN IF o2.state = "STOPPING"
             THEN [out |-> [o2 EXCEPT !.last_buffer = ready_buf],
                   hw |-> <<>>]
             ELSE [out |-> vin_buf_add_ready(o2, ready_buf),
                   hw |-> AddrSwitch(line, "vin_change_buffer", new_addr)]

vin_change_buffer(line, o) ==
  IF vin_change_buffer_gate(o)
  THEN [out |-> o, hw |-> <<>>]
  ELSE vin_change_buffer_locked(line, o)

\* vin_flush_buffers without the last_buffer block
vin_flush_buffers_no_last(o, state) ==
  LET f == vin_buf_flush(o, state)
      slot(b) == IF b # NULL THEN <<Vb2Done(b, state, 0 - 1, 0)>> ELSE <<>>
  IN [out |-> [f.out EXCEPT !.buf = [i \in 0 .. 1 |-> NULL]],
      ret |-> f.ret \o slot(o.buf[0]) \o slot(o.buf[1])]

\* vin_flush_buffers that also sets the state to VIN_OUTPUT_OFF
vin_flush_buffers_off(o, state) ==
  LET f == vin_buf_flush(o, state)
      slot(b) == IF b # NULL THEN <<Vb2Done(b, state, 0 - 1, 0)>> ELSE <<>>
  IN [out |-> [f.out EXCEPT !.last_buffer = NULL,
                            !.buf = [i \in 0 .. 1 |-> NULL],
                            !.state = "OFF"],
      ret |-> f.ret \o slot(o.buf[0]) \o slot(o.buf[1])
              \o slot(o.last_buffer)]

\* [out, ret]
vin_flush_buffers(o, state) ==
  LET f == vin_buf_flush(o, state)
      slot(b) == IF b # NULL THEN <<Vb2Done(b, state, 0 - 1, 0)>> ELSE <<>>
  IN [out |-> [f.out EXCEPT !.last_buffer = NULL,
                            !.buf = [i \in 0 .. 1 |-> NULL]],
      ret |-> f.ret \o slot(o.buf[0]) \o slot(o.buf[1])
              \o slot(o.last_buffer)]

(***************************************************************************)
(* The dummy buffer pool of the line's module.                             *)
(***************************************************************************)
\* ok: whether dma_alloc_coherent has memory for the module's buffers
vin_alloc_dummy_buffer(d, ok) ==
  [d EXCEPT !.buffer =
     [i \in 0 .. d.nums - 1 |->
        IF i = STF_VIN_PAD_SINK \/ i = STF_ISP_PAD_SRC
        THEN LET p0 == IF ok THEN DmaAllocAddr(i) ELSE d.buffer[i].paddr[0]
             IN [vaddr |-> ok,
                 paddr |-> [k \in 0 .. 1 |->
                    IF k = 0 THEN p0
                    ELSE IF ok /\ i = STF_ISP_PAD_SRC
                         THEN p0 + PlaneOffset
                         ELSE d.buffer[i].paddr[1]]]
        ELSE d.buffer[i]]]

vin_free_dummy_buffer(d) ==
  [d EXCEPT !.buffer =
     [i \in 0 .. d.nums - 1 |->
        [vaddr |-> FALSE, paddr |-> [k \in 0 .. 1 |-> 0]]]]

\* the hardware calls of vin_set_dummy_buffer
vin_set_dummy_buffer(line, d, pad) ==
  IF pad = STF_VIN_PAD_SINK
  THEN IF line = VIN_LINE_WR
       THEN LET b == d.buffer[STF_VIN_PAD_SINK]
            IN <<HwCall("stf_vin_wr_set_ping_addr", "vin_set_dummy_buffer",
                        b.paddr[0], 0),
                 HwCall("stf_vin_wr_set_pong_addr", "vin_set_dummy_buffer",
                        b.paddr[0], 0)>>
       ELSE LET b == d.buffer[STF_ISP_PAD_SRC]
            IN <<HwCall("stf_vin_isp_set_yuv_addr", "vin_set_dummy_buffer",
                        b.paddr[0], b.paddr[1])>>
  ELSE IF pad = STF_ISP_PAD_SRC
       THEN LET b == d.buffer[STF_ISP_PAD_SRC]
            IN <<HwCall("stf_vin_isp_set_yuv_addr", "vin_set_dummy_buffer",
                        b.paddr[0], b.paddr[1])>>
       ELSE <<>>

(***************************************************************************)
(* The stream and power reference counters.                                *)
(***************************************************************************)
\* vin_set_stream_dummy without the vin_set_dummy_buffer of the first stream-on
vin_set_stream_dummy_nowrite(line, d, enable, ok) ==
  IF enable = 1
  THEN IF d.stream_count = 0
       THEN [d |-> [vin_alloc_dummy_buffer(d, ok) EXCEPT !.stream_count = @ + 1],
             hw |-> <<>>]
       ELSE [d |-> [d EXCEPT !.stream_count = @ + 1], hw |-> <<>>]
  ELSE IF d.stream_count = 1
       THEN LET d1 == vin_free_dummy_buffer(d)
            IN [d |-> [d1 EXCEPT !.stream_count = @ - 1],
                hw |-> vin_set_dummy_buffer(line, d1, STF_VIN_PAD_SINK)]
       ELSE [d |-> [d EXCEPT !.stream_count = @ - 1],
             hw |-> vin_set_dummy_buffer(line, d,
                      stf_vin_map_isp_pad(line, STF_ISP_PAD_SINK))]

\* vin_set_stream_dummy freeing the pool at every stream-off
vin_set_stream_dummy_free(line, d, enable, ok) ==
  IF enable = 1
  THEN IF d.stream_count = 0
       THEN LET d1 == vin_alloc_dummy_buffer(d, ok)
            IN [d |-> [d1 EXCEPT !.stream_count = @ + 1],
                hw |-> vin_set_dummy_buffer(line, d1, STF_VIN_PAD_SINK)]
       ELSE [d |-> [d EXCEPT !.stream_count = @ + 1], hw |-> <<>>]
  ELSE LET d1 == vin_free_dummy_buffer(d)
       IN [d |-> [d1 EXCEPT !.stream_count = @ - 1],
           hw |-> vin_set_dummy_buffer(line, d1, STF_VIN_PAD_SINK)]

\* vin_set_stream under dummy_buffer->stream_lock: [d, hw]
vin_set_stream_dummy(line, d, enable, ok) ==
  IF enable = 1
  THEN IF d.stream_count = 0
       THEN LET d1 == vin_alloc_dummy_buffer(d, ok)
            IN [d |-> [d1 EXCEPT !.stream_count = @ + 1],
                hw |-> vin_set_dummy_buffer(line, d1, STF_VIN_PAD_SINK)]
       ELSE [d |-> [d EXCEPT !.stream_count = @ + 1], hw |-> <<>>]
  ELSE IF d.stream_count = 1
       THEN LET d1 == vin_free_dummy_buffer(d)
            IN [d |-> [d1 EXCEPT !.stream_count = @ - 1],
                hw |-> vin_set_dummy_buffer(line, d1, STF_VIN_PAD_SINK)]
       ELSE [d |-> [d EXCEPT !.stream_count = @ - 1],
             hw |-> vin_set_dummy_buffer(line, d,
                      stf_vin_map_isp_pad(line, STF_ISP_PAD_SINK))]

\* vin_set_stream_line without the stream_count == 0 test
vin_set_stream_line_always(line, count, enable, link) ==
  IF link = "LINK_ERROR"
  THEN [count |-> count, hw |-> <<>>]
  ELSE IF enable = 1
  THEN [count |-> count + 1,
        hw |-> <<HwCall("stf_vin_stream_set", "vin_set_stream", 0, 0)>>
               \o (IF line = VIN_LINE_WR
                   THEN <<HwCall("stf_vin_wr_irq_enable",
                                 "vin_set_stream", 1, 0),
                          HwCall("stf_vin_wr_stream_set",
                                 "vin_set_stream", 0, 0)>>
                   ELSE <<>>)]
  ELSE [count |-> count - 1,
        hw |-> IF count = 1 /\ line = VIN_LINE_WR
               THEN <<HwCall("stf_vin_wr_irq_enable", "vin_set_stream", 0, 0)>>
               ELSE <<>>]

\* vin_set_stream under line->stream_lock: [count, hw]
vin_set_stream_line(line, count, enable, link) ==
  IF link = "LINK_ERROR"
  THEN [count |-> count, hw |-> <<>>]
  ELSE IF enable = 1
  THEN [count |-> count + 1,
        hw |-> IF count = 0
               THEN <<HwCall("stf_vin_stream_set", "vin_set_stream", 0, 0)>>
                    \o (IF line = VIN_LINE_WR
                        THEN <<HwCall("stf_vin_wr_irq_enable",
                                      "vin_set_stream", 1, 0),
                               HwCall("stf_vin_wr_stream_set",
                                      "vin_set_stream", 0, 0)>>
                        ELSE <<>>)
               ELSE <<>>]
  ELSE [count |-> count - 1,
        hw |-> IF count = 1 /\ line = VIN_LINE_WR
               THEN <<HwCall("stf_vin_wr_irq_enable", "vin_set_stream", 0, 0)>>
               ELSE <<>>]

\* vin_set_power under line->power_lock: the line's new power_count
vin_set_power_line(count, on) ==
  IF on = 1 THEN count + 1
  ELSE IF count = 0 THEN count
  ELSE count - 1

\* vin_set_power_dev without the power_count == 0 test before the enable
vin_set_power_dev_always(count, clk, on, link) ==
  IF link = "LINK_ERROR"
  THEN [count |-> count, clk |-> clk, hw |-> <<>>]
  ELSE IF on = 1
  THEN [count |-> count + 1, clk |-> TRUE,
        hw |-> <<HwCall("pm_runtime_get_sync", "vin_set_power", 0, 0),
                 HwCall("stf_vin_clk_enable", "vin_set_power", 0, 0)>>]
  ELSE IF count = 0
  THEN [count |-> count, clk |-> clk, hw |-> <<>>]
  ELSE IF count = 1
  THEN [count |-> count - 1, clk |-> FALSE,
        hw |-> <<HwCall("stf_vin_clk_disable", "vin_set_power", 0, 0),
                 HwCall("pm_runtime_put_sync", "vin_set_power", 0, 0)>>]
  ELSE [count |-> count - 1, clk |-> clk, hw |-> <<>>]

\* vin_set_power under vin_dev->power_lock: [count, clk, hw]
vin_set_power_dev(count, clk, on, link) ==
  IF link = "LINK_ERROR"
  THEN [count |-> count, clk |-> clk, hw |-> <<>>]
  ELSE IF on = 1
  THEN IF count = 0
       THEN [count |-> count + 1, clk |-> TRUE,
             hw |-> <<HwCall("pm_runtime_get_sync", "vin_set_power", 0, 0),
                      HwCall("stf_vin_clk_enable", "vin_set_power", 0, 0)>>]
       ELSE [count |-> count + 1, clk |-> clk, hw |-> <<>>]
  ELSE IF count = 0
  THEN [count |-> count, clk |-> clk, hw |-> <<>>]
  ELSE IF count = 1
  THEN [count |-> count - 1, clk |-> FALSE,
        hw |-> <<HwCall("stf_vin_clk_disable", "vin_set_power", 0, 0),
                 HwCall("pm_runtime_put_sync", "vin_set_power", 0, 0)>>]
  ELSE [count |-> count - 1, clk |-> clk, hw |-> <<>>]

(***************************************************************************)
(* How far the run has followed the scenario of the specification's        *)
(* section 8 (stream-on, queue A, rotation, queue B, rotation, completion) *)
(* or its round trip (stream-on, stream-off), from a line that has only    *)
(* been powered.                                                           *)
(***************************************************************************)
ScenNext(s, fn, on) ==
  IF s = "start" /\ fn = "vin_set_power" THEN "start"
  ELSE IF s = "start" /\ fn = "vin_set_stream" /\ on = 1 THEN "stream_on"
  ELSE IF s = "stream_on" /\ fn = "vin_set_stream" /\ on = 0 THEN "on_off"
  ELSE IF s = "stream_on" /\ fn = "vin_queue_buffer" THEN "queue_A"
  ELSE IF s = "queue_A" /\ fn = "vin_change_buffer" THEN "rotate_1"
  ELSE IF s = "rotate_1" /\ fn = "vin_queue_buffer" THEN "queue_B"
  ELSE IF s = "queue_B" /\ fn = "vin_change_buffer" THEN "rotate_2"
  ELSE IF s = "rotate_2" /\ fn = "vin_buffer_done" THEN "complete"
  ELSE "left"

\* the entry point that ran last: the line it ran on, its on/enable argument
\* (0 when it has none), and whether it returned at its unlocked state test
OpRec(fn, line, on, early) ==
  [fn |-> fn, line |-> line, on |-> on, early |-> early]

\* the value an entry point hands back to its caller: each of the four
\* int-returning entry points ends in "return 0" on every path, and the two
\* interrupt handlers return nothing (0 here)
EntryReturn(fn) ==
  CASE fn = "vin_set_power" -> 0
    [] fn = "vin_set_stream" -> 0
    [] fn = "vin_queue_buffer" -> 0
    [] fn = "vin_flush_buffers" -> 0
    [] OTHER -> 0

\* no interrupt handler is between its state test and its return
NoHandler == [at |-> "none", ts |-> 0]

(***************************************************************************)
(* The state after stf_vin_subdev_init, on a media graph in which every    *)
(* line has its upstream link (the graph does not change during a run).    *)
(***************************************************************************)
Init ==
  /\ line_id \in Lines
  /\ remote_link \in [Lines -> Links]
  /\ \A l \in Lines : remote_link[l] \in vin_get_link(l)
  /\ \A l \in Lines : remote_link[l] # "LINK_ERROR"
  /\ lists_init = FALSE
  /\ output = [state |-> "OFF", buf |-> [i \in 0 .. 1 |-> NULL],
               active_buf |-> 0, last_buffer |-> NULL,
               pending_bufs |-> <<>>, ready_bufs |-> <<>>, sequence |-> 0]
  /\ dummy_buffer =
       LET n == IF vin_line_to_dummy_module(line_id) = 0
                THEN VIN_DUMMY_BUFFER_NUMS ELSE ISP_DUMMY_BUFFER_NUMS
       IN [nums |-> n, stream_count |-> 0,
           buffer |-> [i \in 0 .. n - 1 |->
                         [vaddr |-> FALSE, paddr |-> [k \in 0 .. 1 |-> 0]]]]
  /\ stream_count = 0
  /\ power_count = [l \in Lines |-> 0]
  /\ dev_power_count = 0
  /\ clk_enabled = FALSE
  /\ sink = <<0, 0>>
  /\ held = {}
  /\ next_buf = 1
  /\ last_installed = NULL
  /\ op = OpRec("stf_vin_subdev_init", line_id, 0, FALSE)
  /\ ret = <<>>
  /\ hw = <<>>
  /\ scen = "start"
  /\ pc = NoHandler
  /\ output_lock = "free"

\* what every entry point leaves behind: the calls it made and their effect
\* (b is the descriptor handed in, r the vb2_buffer_done calls)
EffectsOf(fn, line, on, early, b, r, calls) ==
  /\ op' = OpRec(fn, line, on, early)
  /\ ret' = r
  /\ hw' = calls
  /\ sink' = ApplyCalls(sink, calls)
  /\ last_installed' = LastInstalled(last_installed, calls)
  /\ held' = (IF b # NULL THEN held \cup {b} ELSE held)
             \ {r[i].buf : i \in 1 .. Len(r)}
  /\ scen' = ScenNext(scen, fn, on)

\* an entry point that runs from its first line to its return in one step:
\* output_lock, where it takes it, is released again before the step ends
Effects(fn, line, on, early, b, r, calls) ==
  /\ EffectsOf(fn, line, on, early, b, r, calls)
  /\ UNCHANGED <<pc, output_lock>>

(***************************************************************************)
(* The entry points.                                                       *)
(***************************************************************************)
\* .s_power of line l; only line_id's output is part of the state
SetPower(l, on) ==
  /\ on = 1 => power_count[l] < MaxPower
  /\ power_count' = [power_count EXCEPT ![l] = vin_set_power_line(@, on)]
  /\ IF on = 1 /\ power_count[l] = 0 /\ l = line_id
     THEN /\ output' = vin_init_outputs(output)
          /\ lists_init' = TRUE
     ELSE UNCHANGED <<output, lists_init>>
  /\ LET r == vin_set_power_dev(dev_power_count, clk_enabled, on, remote_link[l])
     IN /\ dev_power_count' = r.count
        /\ clk_enabled' = r.clk
        /\ Effects("vin_set_power", l, on, FALSE, NULL, <<>>, r.hw)
  /\ UNCHANGED <<line_id, remote_link, dummy_buffer, stream_count, next_buf>>

\* .s_stream of the line
SetStream(enable, ok) ==
  /\ enable = 1 => lists_init
  /\ enable = 1 => dummy_buffer.stream_count < MaxStream
  /\ enable = 0 => dummy_buffer.stream_count >= 0
  /\ LET d == vin_set_stream_dummy(line_id, dummy_buffer, enable, ok)
         c == vin_set_stream_line(line_id, stream_count, enable,
                                  remote_link[line_id])
         e == IF enable = 1
              THEN vin_enable_output(line_id, output)
              ELSE [out |-> vin_disable_output(output), hw |-> <<>>]
     IN /\ dummy_buffer' = d.d
        /\ stream_count' = c.count
        /\ output' = e.out
        /\ Effects("vin_set_stream", line_id, enable, FALSE, NULL,
                   <<>>, d.hw \o c.hw \o e.hw)
  /\ UNCHANGED <<line_id, remote_link, lists_init, power_count, dev_power_count,
                 clk_enabled, next_buf>>

\* .queue_buffer: the framework hands in its next descriptor
QueueBuffer ==
  /\ lists_init
  /\ next_buf <= MaxBufs
  /\ LET r == vin_buf_update_on_new(line_id, output, next_buf)
     IN /\ output' = r.out
        /\ Effects("vin_queue_buffer", line_id, 0, FALSE, next_buf,
                   <<>>, r.hw)
  /\ next_buf' = next_buf + 1
  /\ UNCHANGED <<line_id, remote_link, lists_init, dummy_buffer, stream_count,
                 power_count, dev_power_count, clk_enabled>>

\* .flush_buffers
FlushBuffers(state) ==
  /\ lists_init
  /\ LET r == vin_flush_buffers(output, state)
     IN /\ output' = r.out
        /\ Effects("vin_flush_buffers", line_id, 0, FALSE, NULL,
                   r.ret, <<>>)
  /\ UNCHANGED <<line_id, remote_link, lists_init, dummy_buffer, stream_count,
                 power_count, dev_power_count, clk_enabled, next_buf>>

\* isr_buffer_done
BufferDone(ts) ==
  /\ LET r == vin_buffer_done(output, ts)
     IN /\ output' = r.out
        /\ Effects("vin_buffer_done", line_id, 0,
                   vin_buffer_done_gate(output), NULL,
                   r.ret, <<>>)
  /\ UNCHANGED <<line_id, remote_link, lists_init, dummy_buffer, stream_count,
                 power_count, dev_power_count, clk_enabled, next_buf>>

\* isr_change_buffer
ChangeBuffer ==
  /\ LET r == vin_change_buffer(line_id, output)
     IN /\ output' = r.out
        /\ Effects("vin_change_buffer", line_id, 0,
                   vin_change_buffer_gate(output), NULL,
                   <<>>, r.hw)
  /\ UNCHANGED <<line_id, remote_link, lists_init, dummy_buffer, stream_count,
                 power_count, dev_power_count, clk_enabled, next_buf>>

Next ==
  \/ \E on \in {0, 1} : SetPower(line_id, on)
  \/ \E enable \in {0, 1}, ok \in BOOLEAN : SetStream(enable, ok)
  \/ QueueBuffer
  \/ \E state \in {"ERROR", "QUEUED"} : FlushBuffers(state)
  \/ \E ts \in Times : BufferDone(ts)
  \/ ChangeBuffer

Spec == Init /\ [][Next]_vars

(***************************************************************************)
(* The power and stream counters of both lines, on a media graph in which  *)
(* a line may lack its upstream link (vin_get_link gives LINK_ERROR).      *)
(***************************************************************************)
InitPower ==
  /\ line_id \in Lines
  /\ remote_link \in [Lines -> Links]
  /\ \A l \in Lines : remote_link[l] \in vin_get_link(l)
  /\ lists_init = FALSE
  /\ output = [state |-> "OFF", buf |-> [i \in 0 .. 1 |-> NULL],
               active_buf |-> 0, last_buffer |-> NULL,
               pending_bufs |-> <<>>, ready_bufs |-> <<>>, sequence |-> 0]
  /\ dummy_buffer =
       LET n == IF vin_line_to_dummy_module(line_id) = 0
                THEN VIN_DUMMY_BUFFER_NUMS ELSE ISP_DUMMY_BUFFER_NUMS
       IN [nums |-> n, stream_count |-> 0,
           buffer |-> [i \in 0 .. n - 1 |->
                         [vaddr |-> FALSE, paddr |-> [k \in 0 .. 1 |-> 0]]]]
  /\ stream_count = 0
  /\ power_count = [l \in Lines |-> 0]
  /\ dev_power_count = 0
  /\ clk_enabled = FALSE
  /\ sink = <<0, 0>>
  /\ held = {}
  /\ next_buf = 1
  /\ last_installed = NULL
  /\ op = OpRec("stf_vin_subdev_init", line_id, 0, FALSE)
  /\ ret = <<>>
  /\ hw = <<>>
  /\ scen = "start"
  /\ pc = NoHandler
  /\ output_lock = "free"

NextPower ==
  \/ \E l \in Lines, on \in {0, 1} : SetPower(l, on)
  \/ \E enable \in {0, 1}, ok \in BOOLEAN : SetStream(enable, ok)

SpecPower == InitPower /\ [][NextPower]_vars

(***************************************************************************)
(* The interrupt handlers step by step, interleaved with the entry points  *)
(* that run in process context.  A handler tests output->state before it   *)
(* takes output_lock; vin_buffer_done keeps the lock over its whole loop.  *)
(***************************************************************************)
\* vin_buffer_done up to spin_lock_irqsave: ktime_get_ns() and the state test
BufferDoneEntry(ts) ==
  /\ pc.at = "none"
  /\ pc' = IF vin_buffer_done_gate(output) THEN NoHandler
           ELSE [at |-> "vin_buffer_done_lock", ts |-> ts]
  /\ EffectsOf("vin_buffer_done", line_id, 0, vin_buffer_done_gate(output),
               NULL, <<>>, <<>>)
  /\ UNCHANGED <<line_id, remote_link, lists_init, output, dummy_buffer,
                 stream_count, power_count, dev_power_count, clk_enabled,
                 next_buf, output_lock>>

\* spin_lock_irqsave(&line->output_lock) of vin_buffer_done
BufferDoneLock ==
  /\ pc.at = "vin_buffer_done_lock"
  /\ output_lock = "free"
  /\ output_lock' = "vin_buffer_done"
  /\ pc' = [pc EXCEPT !.at = "vin_buffer_done_loop"]
  /\ EffectsOf("vin_buffer_done", line_id, 0, FALSE, NULL, <<>>, <<>>)
  /\ UNCHANGED <<line_id, remote_link, lists_init, output, dummy_buffer,
                 stream_count, power_count, dev_power_count, clk_enabled,
                 next_buf>>

\* one turn of the while loop of vin_buffer_done, or its end and the unlock
BufferDoneIter ==
  /\ pc.at = "vin_buffer_done_loop"
  /\ LET g == vin_buf_get_ready(output)
     IN IF g.buffer # NULL
        THEN /\ output' = [g.out EXCEPT !.sequence = @ + 1]
             /\ EffectsOf("vin_buffer_done", line_id, 0, FALSE, NULL,
                          <<Vb2Done(g.buffer, "DONE", output.sequence,
                                    pc.ts)>>, <<>>)
             /\ UNCHANGED <<pc, output_lock>>
        ELSE /\ output' = output
             /\ EffectsOf("vin_buffer_done", line_id, 0, FALSE, NULL,
                          <<>>, <<>>)
             /\ pc' = NoHandler
             /\ output_lock' = "free"
  /\ UNCHANGED <<line_id, remote_link, lists_init, dummy_buffer,
                 stream_count, power_count, dev_power_count, clk_enabled,
                 next_buf>>

\* vin_change_buffer up to spin_lock_irqsave: the state test
ChangeBufferEntry ==
  /\ pc.at = "none"
  /\ pc' = IF vin_change_buffer_gate(output) THEN NoHandler
           ELSE [at |-> "vin_change_buffer_lock", ts |-> 0]
  /\ EffectsOf("vin_change_buffer", line_id, 0,
               vin_change_buffer_gate(output), NULL, <<>>, <<>>)
  /\ UNCHANGED <<line_id, remote_link, lists_init, output, dummy_buffer,
                 stream_count, power_count, dev_power_count, clk_enabled,
                 next_buf, output_lock>>

\* vin_change_buffer from spin_lock_irqsave to spin_unlock_irqrestore
ChangeBufferLocked ==
  /\ pc.at = "vin_change_buffer_lock"
  /\ output_lock = "free"
  /\ LET r == vin_change_buffer_locked(line_id, output)
     IN /\ output' = r.out
        /\ EffectsOf("vin_change_buffer", line_id, 0, FALSE, NULL,
                     <<>>, r.hw)
  /\ pc' = NoHandler
  /\ UNCHANGED <<line_id, remote_link, lists_init, dummy_buffer,
                 stream_count, power_count, dev_power_count, clk_enabled,
                 next_buf, output_lock>>

\* the entry points that take output_lock wait for it; vin_set_power, whose
\* vin_init_outputs runs under power_lock only, does not
NextRace ==
  \/ \E on \in {0, 1} : SetPower(line_id, on)
  \/ output_lock = "free" /\ \E enable \in {0, 1} : SetStream(enable, TRUE)
  \/ output_lock = "free" /\ QueueBuffer
  \/ output_lock = "free" /\ FlushBuffers("ERROR")
  \/ \E ts \in Times : BufferDoneEntry(ts)
  \/ BufferDoneLock
  \/ BufferDoneIter
  \/ ChangeBufferEntry
  \/ ChangeBufferLocked

SpecRace == Init /\ [][NextRace]_vars

(***************************************************************************)
(* One stream session on an enabled line: the line is powered once, the    *)
(* stream is switched on once, and from then on only queue_buffer and the  *)
(* two interrupt handlers run (no stream-off, no flush, no second          *)
(* stream-on).  The engine raises both interrupts for every frame while    *)
(* the path is enabled, so neither handler is postponed forever.           *)
(***************************************************************************)
NextLive ==
  \/ power_count[line_id] = 0 /\ SetPower(line_id, 1)
  \/ \E ok \in BOOLEAN : stream_count = 0 /\ SetStream(1, ok)
  \/ QueueBuffer
  \/ \E ts \in Times : BufferDone(ts)
  \/ ChangeBuffer

SpecLive ==
  /\ Init
  /\ [][NextLive]_vars
  /\ WF_vars(ChangeBuffer)
  /\ WF_vars(\E ts \in Times : BufferDone(ts))

(***************************************************************************)
(* What the engine holds.                                                  *)
(***************************************************************************)
\* the descriptors in the two slots and in last_buffer, in that order
SlotSeq(o) ==
  SelectSeq(<<o.buf[0], o.buf[1], o.last_buffer>>, LAMBDA b : b # NULL)

\* every place of the engine that holds a descriptor, one entry per place
Places(o) == o.pending_bufs \o o.ready_bufs \o SlotSeq(o)

\* in how many entries of the sequence s the descriptor b is
Count(s, b) == Cardinality({i \in 1 .. Len(s) : s[i] = b})

RetBufs(r) == [i \in 1 .. Len(r) |-> r[i].buf]

FlushStates == {"ERROR", "QUEUED"}

(***************************************************************************)
(* C1.  One vin_flush_buffers(line, status) call gives every descriptor    *)
(* the engine holds at that moment (each member of pending, each member of *)
(* ready, slot 0, slot 1, last_buffer) to vb2_buffer_done exactly once,    *)
(* with the given status, and leaves both lists, both slots and            *)
(* last_buffer empty.                                                      *)
(***************************************************************************)
C1_FlushReturnsAll ==
  [][\A st \in FlushStates :
       FlushBuffers(st) =>
         /\ \A b \in Bufs :
              Count(RetBufs(ret'), b) =
                (IF b \in SeqToSet(Places(output)) THEN 1 ELSE 0)
         /\ \A i \in 1 .. Len(ret') : ret'[i].state = st
         /\ Places(output') = <<>>]_vars

\* a flush that gave back a pending, a ready and a slot descriptor at once
C1_Witness ==
  /\ op.fn = "vin_flush_buffers"
  /\ Len(ret) >= 3
  /\ output.state = "SINGLE"

C3_HeldInOnePlace ==
  \A b \in held : Count(Places(output), b) = 1

(***************************************************************************)
(* C4.  The address registers never hold the address of a descriptor that  *)
(* was given back to the framework, nor the address of a dummy buffer that *)
(* is no longer allocated: they hold zero, the address of an allocated     *)
(* dummy buffer, or the address of a descriptor not yet given back.        *)
(***************************************************************************)
C4_SinkNotDangling ==
  \A k \in 1 .. 2 :
    \/ sink[k] = 0
    \/ \E b \in held : sink[k] \in {BufAddr(b)[1], BufAddr(b)[2]}
    \/ \E i \in 0 .. dummy_buffer.nums - 1 :
         /\ dummy_buffer.buffer[i].vaddr
         /\ sink[k] \in {dummy_buffer.buffer[i].paddr[0],
                         dummy_buffer.buffer[i].paddr[1]}

(***************************************************************************)
(* C5.  Descriptor addresses are written to the address registers in the   *)
(* order queue_buffer received the descriptors (descriptors are numbered   *)
(* in arrival order): no write installs a descriptor queued before the one *)
(* installed last.                                                         *)
(***************************************************************************)
C5_InstalledInArrivalOrder ==
  [][last_installed' >= last_installed]_vars

\* three descriptors installed one after the other, the third by a rotation
C5_Witness ==
  /\ op.fn = "vin_change_buffer"
  /\ last_installed = 3
  /\ output.ready_bufs = <<1, 2>>
  /\ BufOfAddr(sink[1]) = 3

(***************************************************************************)
(* C6.  No descriptor is at once a member of the ready list and the        *)
(* occupant of the active slot buf[active_buf].                            *)
(***************************************************************************)
C6_ReadyNotActive ==
  \A i \in 1 .. Len(output.ready_bufs) :
    output.ready_bufs[i] # output.buf[output.active_buf]

\* a rotation has moved one descriptor to ready and the next into the slot
C6_Witness ==
  /\ op.fn = "vin_change_buffer"
  /\ output.ready_bufs # <<>>
  /\ output.buf[output.active_buf] # NULL

(***************************************************************************)
(* C7.  Once the line is in STOPPING, a rotation or a completion event     *)
(* leaves the state STOPPING, leaves last_buffer as it is and writes no    *)
(* address register; the state goes from STOPPING to SINGLE only in        *)
(* queue_buffer.                                                           *)
(***************************************************************************)
C7_StoppingFrozen ==
  [][/\ (output.state = "STOPPING"
         /\ op'.fn \in {"vin_change_buffer", "vin_buffer_done"})
        => /\ output'.state = "STOPPING"
           /\ output'.last_buffer = output.last_buffer
           /\ SinkWrites(hw') = <<>>
           /\ sink' = sink
     /\ (output.state = "STOPPING" /\ output'.state = "SINGLE")
        => op'.fn = "vin_queue_buffer"]_vars

\* a rotation event that found the line already in STOPPING
C7_Witness ==
  /\ op.fn = "vin_change_buffer"
  /\ op.early
  /\ output.state = "STOPPING"
  /\ output.last_buffer # NULL
  /\ BufOfAddr(sink[1]) = output.last_buffer

(***************************************************************************)
(* C8.  With both lists, both slots and last_buffer empty, the enable of a *)
(* stream-on takes the state from OFF to IDLE and the disable of the       *)
(* stream-off that follows takes it back to OFF; neither writes an address *)
(* register, and slots, lists and last_buffer stay as they were.           *)
(***************************************************************************)
\* the address writes made by the output engine itself
EngineWrites(calls) ==
  SelectSeq(SinkWrites(calls),
            LAMBDA c : c.by \in {"vin_output_init_addrs",
                                 "vin_change_buffer"})

C8_EnableDisableRoundTrip ==
  [][/\ (/\ \E ok \in BOOLEAN : SetStream(1, ok)
         /\ output.state = "OFF"
         /\ Places(output) = <<>>)
        => /\ output'.state = "IDLE"
           /\ EngineWrites(hw') = <<>>
           /\ output' = [output EXCEPT !.state = "IDLE", !.sequence = 0,
                                       !.active_buf = 0]
     /\ (/\ \E ok \in BOOLEAN : SetStream(0, ok)
         /\ op.fn = "vin_set_stream" /\ op.on = 1
         /\ output.state = "IDLE"
         /\ Places(output) = <<>>)
        => /\ output'.state = "OFF"
           /\ EngineWrites(hw') = <<>>
           /\ output' = [output EXCEPT !.state = "OFF"]]_vars

\* stream-on and then stream-off on a line that was only powered
C8_Witness ==
  /\ scen = "on_off"
  /\ op.fn = "vin_set_stream" /\ op.on = 0
  /\ output.state = "OFF"

(***************************************************************************)
(* C9.  The scenario, on a line that was only powered: stream-on installs  *)
(* the dummy address and gives IDLE; queue A gives SINGLE with slot 0 = A; *)
(* a rotation gives STOPPING with last_buffer = A and no register write;   *)
(* queue B gives SINGLE with A back in the active slot and pending = [B];  *)
(* the next rotation gives ready = [A], active slot = B, SINGLE and B's    *)
(* address in the registers; the next completion gives back exactly A, as  *)
(* DONE, with sequence 0 and the timestamp the handler read.               *)
(***************************************************************************)
\* the register values after the addresses of descriptor b were written
SinkOfBuf(line, b) ==
  IF line = VIN_LINE_WR
  THEN <<BufAddr(b)[1], BufAddr(b)[1]>>
  ELSE <<BufAddr(b)[1], BufAddr(b)[2]>>

\* the register values after the dummy buffer of the line was written
SinkOfDummy(line, d) ==
  IF line = VIN_LINE_WR
  THEN <<d.buffer[STF_VIN_PAD_SINK].paddr[0],
         d.buffer[STF_VIN_PAD_SINK].paddr[0]>>
  ELSE <<d.buffer[STF_ISP_PAD_SRC].paddr[0],
         d.buffer[STF_ISP_PAD_SRC].paddr[1]>>

\* whether the dummy buffer the line uses is allocated
DummyAllocated(line, d) ==
  IF line = VIN_LINE_WR
  THEN d.buffer[STF_VIN_PAD_SINK].vaddr
  ELSE d.buffer[STF_ISP_PAD_SRC].vaddr

C9_Scenario ==
  /\ [](/\ scen = "stream_on" =>
             /\ output.state = "IDLE"
             /\ sink = SinkOfDummy(line_id, dummy_buffer)
             /\ DummyAllocated(line_id, dummy_buffer) => sink[1] # 0
             /\ SinkWrites(hw) # <<>>
        /\ scen = "queue_A" =>
             /\ output.state = "SINGLE"
             /\ output.buf[0] = 1
             /\ sink = SinkOfBuf(line_id, 1)
        /\ scen = "rotate_1" =>
             /\ output.state = "STOPPING"
             /\ output.last_buffer = 1
             /\ hw = <<>>
             /\ sink = SinkOfBuf(line_id, 1)
        /\ scen = "queue_B" =>
             /\ output.state = "SINGLE"
             /\ output.buf[output.active_buf] = 1
             /\ output.last_buffer = NULL
             /\ output.pending_bufs = <<2>>
        /\ scen = "rotate_2" =>
             /\ output.state = "SINGLE"
             /\ output.ready_bufs = <<1>>
             /\ output.buf[output.active_buf] = 2
             /\ output.pending_bufs = <<>>
             /\ sink = SinkOfBuf(line_id, 2)
        /\ scen = "complete" =>
             /\ Len(ret) = 1
             /\ ret[1].buf = 1
             /\ ret[1].state = "DONE"
             /\ ret[1].sequence = 0
             /\ output.ready_bufs = <<>>)
  /\ [][\A ts \in Times :
          (scen = "rotate_2" /\ BufferDone(ts))
          => ret' = <<Vb2Done(1, "DONE", 0, ts)>>]_vars

\* the scenario was run to its end
C9_Witness ==
  /\ scen = "complete"
  /\ op.fn = "vin_buffer_done"
  /\ ret # <<>>
  /\ output.buf[0] = 2

(***************************************************************************)
(* C10.  As claimed: on a line with its link, a stream-on enables the      *)
(* hardware path exactly when it is the first (stream count 0), and a      *)
(* stream-off disables the hardware path exactly when it is the last       *)
(* (stream count 1), on every line.                                        *)
(***************************************************************************)
PathEnable(calls) ==
  \E i \in 1 .. Len(calls) : calls[i].fn = "stf_vin_stream_set"

PathDisable(calls) ==
  \E i \in 1 .. Len(calls) :
    calls[i].fn = "stf_vin_wr_irq_enable" /\ calls[i].a0 = 0

C11_CountsNonNegative ==
  /\ stream_count >= 0
  /\ dummy_buffer.stream_count >= 0
  /\ \A l \in Lines : power_count[l] >= 0
  /\ dev_power_count >= 0

(***************************************************************************)
(* C12.  vin_set_power(off) on a line whose own power count is 0 is a      *)
(* no-op: the line's count, the device power count and the device clocks   *)
(* stay as they are, also while another line holds the device powered.     *)
(***************************************************************************)
C12_PowerOffAtZeroNoOp ==
  [][\A l \in Lines :
       (SetPower(l, 0) /\ power_count[l] = 0)
       => /\ power_count' = power_count
          /\ dev_power_count' = dev_power_count
          /\ clk_enabled' = clk_enabled
          /\ hw' = <<>>]_vars

(***************************************************************************)
(* C13.  The device clocks are enabled only by the vin_set_power(on) that  *)
(* takes the device power count from 0 to 1, and disabled only by the      *)
(* vin_set_power(off) that takes it from 1 to 0; the clocks are enabled    *)
(* exactly while the device power count is greater than 0.                 *)
(***************************************************************************)
ClkEnable(calls) ==
  \E i \in 1 .. Len(calls) : calls[i].fn = "stf_vin_clk_enable"

ClkDisable(calls) ==
  \E i \in 1 .. Len(calls) : calls[i].fn = "stf_vin_clk_disable"

C13_ClockIffPowered ==
  /\ [](clk_enabled <=> dev_power_count > 0)
  /\ [][/\ ClkEnable(hw') <=>
             (/\ op'.fn = "vin_set_power" /\ op'.on = 1
              /\ dev_power_count = 0 /\ dev_power_count' = 1)
        /\ ClkDisable(hw') <=>
             (/\ op'.fn = "vin_set_power" /\ op'.on = 0
              /\ dev_power_count = 1 /\ dev_power_count' = 0)
        /\ clk_enabled' # clk_enabled
             => (ClkEnable(hw') \/ ClkDisable(hw'))]_vars

\* the second line powers on while the first holds the device: no new enable
C13_Witness ==
  /\ op.fn = "vin_set_power" /\ op.on = 1
  /\ dev_power_count = 2
  /\ clk_enabled
  /\ ~ClkEnable(hw)

(***************************************************************************)
(* C14.  vin_set_power and vin_set_stream return a non-success value       *)
(* whenever the request is not carried out: when vin_get_link gives        *)
(* LINK_ERROR, and when a power-off or stream-off arrives at a zero count. *)
(***************************************************************************)
C14_FailureReported ==
  [][/\ \A l \in Lines, on \in {0, 1} :
          (/\ SetPower(l, on)
           /\ \/ remote_link[l] = "LINK_ERROR"
              \/ on = 0 /\ (power_count[l] = 0 \/ dev_power_count = 0))
          => EntryReturn(op'.fn) # 0
     /\ \A enable \in {0, 1} :
          (/\ \E ok \in BOOLEAN : SetStream(enable, ok)
           /\ \/ remote_link[line_id] = "LINK_ERROR"
              \/ enable = 0 /\ stream_count = 0)
          => EntryReturn(op'.fn) # 0]_vars

(***************************************************************************)
(* C15.  Every read and write of the output (state, slots, last_buffer,    *)
(* lists) is made under output_lock, so access is serialised: the state a  *)
(* handler tested is the state its locked part finds, and while the lock   *)
(* is held nothing but its holder changes the output.                      *)
(***************************************************************************)
C15_OutputSerialised ==
  [][/\ ChangeBufferLocked => ~vin_change_buffer_gate(output)
     /\ BufferDoneIter => ~vin_buffer_done_gate(output)
     /\ (output' # output /\ output_lock # "free") => BufferDoneIter]_vars

(***************************************************************************)
(* C16.  At a moment when the output state is OFF, the locked part of a    *)
(* rotation or completion handler changes no slot, list or last_buffer,    *)
(* writes no address register and gives back no descriptor, in every       *)
(* interleaving with stream-off and flush.                                 *)
(***************************************************************************)
C16_HandlersIdleInOff ==
  [][(output.state = "OFF" /\ (ChangeBufferLocked \/ BufferDoneIter))
       => /\ output' = output
          /\ hw' = <<>>
          /\ sink' = sink
          /\ ret' = <<>>]_vars

(***************************************************************************)
(* C17.  output_lock is not held at the moment the completion handler      *)
(* gives a descriptor to vb2_buffer_done.                                  *)
(***************************************************************************)
C17_DoneCalledUnlocked ==
  (op.fn = "vin_buffer_done" /\ ret # <<>>) => output_lock = "free"

(***************************************************************************)
(* C18.  A completion event in a state other than OFF / RESERVED empties   *)
(* the ready list and gives its descriptors to vb2_buffer_done as DONE, in *)
(* list order, all with the one timestamp read at handler entry, with      *)
(* consecutive sequence numbers that continue from the last invocation;    *)
(* the sequence counter is set to 0 by every enable and changed by nothing *)
(* else.                                                                   *)
(***************************************************************************)
C18_CompletionDrainsInOrder ==
  [][/\ \A ts \in Times :
          (BufferDone(ts) /\ output.state \notin {"OFF", "RESERVED"})
          => /\ output'.ready_bufs = <<>>
             /\ Len(ret') = Len(output.ready_bufs)
             /\ \A i \in 1 .. Len(ret') :
                  ret'[i] = Vb2Done(output.ready_bufs[i], "DONE",
                                    output.sequence + i - 1, ts)
             /\ output'.sequence = output.sequence + Len(ret')
     /\ (\E ok \in BOOLEAN : SetStream(1, ok)) => output'.sequence = 0
     /\ output'.sequence # output.sequence
          => \/ op'.fn = "vin_buffer_done"
             \/ op'.fn = "vin_set_stream" /\ op'.on = 1]_vars

\* one completion event gave back two descriptors, numbered 0 and 1
C18_Witness ==
  /\ op.fn = "vin_buffer_done"
  /\ Len(ret) = 2
  /\ ret[1].sequence = 0 /\ ret[2].sequence = 1
  /\ ret[1].ts = ret[2].ts
  /\ ret[1].buf < ret[2].buf
  /\ output.sequence = 2

(***************************************************************************)
(* C19.  vin_set_dummy_buffer writes a dummy buffer's address to the       *)
(* address registers only at moments when both slots and last_buffer of    *)
(* the line are empty, in every stream-on and every stream-off.            *)
(***************************************************************************)
\* the writes of an allocated dummy buffer's address by vin_set_dummy_buffer
\* (after vin_free_dummy_buffer it writes the zero address instead)
DummyWrites(calls) ==
  SelectSeq(SinkWrites(calls),
            LAMBDA c : c.by = "vin_set_dummy_buffer" /\ c.a0 # 0)

C19_DummyOnlyWhenSlotsEmpty ==
  [][DummyWrites(hw') # <<>> => SlotSeq(output) = <<>>]_vars

(***************************************************************************)
(* C20.  The module's dummy pool is allocated by the stream-on that takes  *)
(* the module stream count from 0 to 1 and by no other call, and freed by  *)
(* the stream-off that takes it from 1 to 0 and by no other call; that     *)
(* stream-off leaves the zero address in the registers.  The pool is never *)
(* allocated while it is allocated already, and the registers never hold   *)
(* the address of a pool that has been freed.                              *)
(***************************************************************************)
\* whether any buffer of the module's pool is allocated
PoolAllocated(d) ==
  \E i \in 0 .. d.nums - 1 : d.buffer[i].vaddr

\* the addresses of the pool's buffers, allocated or not
PoolAddrs(d) ==
  UNION {{d.buffer[i].paddr[0], d.buffer[i].paddr[1]} :
           i \in 0 .. d.nums - 1}

\* the plane addresses of the descriptors
DescriptorAddrs ==
  UNION {{BufAddr(b)[1], BufAddr(b)[2]} : b \in Bufs}

C20_PoolAllocFree ==
  /\ [](/\ PoolAllocated(dummy_buffer) => dummy_buffer.stream_count >= 1
        /\ \A k \in 1 .. 2 :
             (sink[k] # 0 /\ sink[k] \notin DescriptorAddrs)
             => (PoolAllocated(dummy_buffer)
                 /\ sink[k] \in PoolAddrs(dummy_buffer)))
  /\ [][/\ \A ok \in BOOLEAN :
             SetStream(1, ok)
             => IF dummy_buffer.stream_count = 0
                THEN /\ ~PoolAllocated(dummy_buffer)
                     /\ \A i \in 0 .. dummy_buffer.nums - 1 :
                          dummy_buffer'.buffer[i].vaddr = ok
                ELSE dummy_buffer'.buffer = dummy_buffer.buffer
        /\ (\E ok \in BOOLEAN : SetStream(0, ok))
             => IF dummy_buffer.stream_count = 1
                THEN /\ ~PoolAllocated(dummy_buffer')
                     /\ PoolAddrs(dummy_buffer') = {0}
                     /\ sink' = <<0, 0>>
                ELSE dummy_buffer'.buffer = dummy_buffer.buffer
        /\ dummy_buffer'.buffer # dummy_buffer.buffer
             => op'.fn = "vin_set_stream"]_vars

\* the first of two stream-offs: the pool stays allocated and installed
C20_Witness ==
  /\ op.fn = "vin_set_stream" /\ op.on = 0
  /\ dummy_buffer.stream_count = 1
  /\ PoolAllocated(dummy_buffer)
  /\ sink = SinkOfDummy(line_id, dummy_buffer)
  /\ sink[1] # 0

(***************************************************************************)
(* C21.  The stream-on that takes the module stream count from 0 to 1      *)
(* writes the dummy address to the address registers before it enables the *)
(* line's hardware path and before it writes any descriptor's address;     *)
(* from then on, while the line streams and until a descriptor's address   *)
(* is written, the registers hold the dummy address.                       *)
(***************************************************************************)
\* the positions in calls of the writes made by vin_set_dummy_buffer
DummyWriteAt(calls) ==
  {i \in 1 .. Len(calls) :
     calls[i].fn \in AddrFns /\ calls[i].by = "vin_set_dummy_buffer"}

\* the positions in calls of the path enable and of descriptor address writes
EnableOrDescriptorAt(calls) ==
  {j \in 1 .. Len(calls) :
     \/ calls[j].fn = "stf_vin_stream_set"
     \/ calls[j].fn \in AddrFns /\ calls[j].by # "vin_set_dummy_buffer"}

C21_DummyBeforeEnable ==
  [][/\ \A ok \in BOOLEAN :
          (SetStream(1, ok) /\ dummy_buffer.stream_count = 0)
          => /\ DummyWriteAt(hw') # {}
             /\ \A i \in DummyWriteAt(hw'), j \in EnableOrDescriptorAt(hw') :
                  i < j
             /\ \A i \in DummyWriteAt(hw') :
                  hw'[i].a0 = SinkOfDummy(line_id, dummy_buffer')[1]
             /\ ok => DummyAllocated(line_id, dummy_buffer')
             /\ EngineWrites(hw') = <<>>
                  => sink' = SinkOfDummy(line_id, dummy_buffer')
     /\ (/\ stream_count >= 1 /\ stream_count' >= 1
         /\ sink = SinkOfDummy(line_id, dummy_buffer)
         /\ EngineWrites(hw') = <<>>)
        => sink' = SinkOfDummy(line_id, dummy_buffer')]_vars

\* a first stream-on that found a descriptor pending: dummy address, path
\* enable and the descriptor's address, written in this order
C21_Witness ==
  /\ op.fn = "vin_set_stream" /\ op.on = 1
  /\ dummy_buffer.stream_count = 1
  /\ DummyAllocated(line_id, dummy_buffer)
  /\ DummyWrites(hw) # <<>>
  /\ PathEnable(hw)
  /\ EngineWrites(hw) # <<>>
  /\ sink = SinkOfBuf(line_id, 1)

(***************************************************************************)
(* C22.  The enable of a stream-on on a line in OFF sets sequence and      *)
(* active_buf to 0; with pending non-empty it ends in SINGLE with the head *)
(* of pending in slot 0 and that descriptor's address written; with        *)
(* pending empty it ends in IDLE and writes no descriptor address; and a   *)
(* descriptor held in slot 0 before the call is still held afterwards.     *)
(***************************************************************************)
C22_EnableFromOff ==
  [][((\E ok \in BOOLEAN : SetStream(1, ok)) /\ output.state = "OFF")
       => /\ output'.sequence = 0
          /\ output'.active_buf = 0
          /\ output.pending_bufs # <<>>
               => /\ output'.state = "SINGLE"
                  /\ output'.buf[0] = Head(output.pending_bufs)
                  /\ output'.pending_bufs = Tail(output.pending_bufs)
                  /\ EngineWrites(hw') # <<>>
                  /\ sink' = SinkOfBuf(line_id, Head(output.pending_bufs))
          /\ output.pending_bufs = <<>>
               => /\ output'.state = "IDLE"
                  /\ EngineWrites(hw') = <<>>
          /\ output.buf[0] # NULL
               => Count(Places(output'), output.buf[0]) >= 1]_vars

(***************************************************************************)
(* C23.  vin_queue_buffer on a line in SINGLE or CONTINUOUS appends the    *)
(* new descriptor at the tail of pending and leaves the state, both slots, *)
(* active_buf, last_buffer, the ready list and the address registers as    *)
(* they were.                                                              *)
(***************************************************************************)
C23_QueueInSingleAppends ==
  [][(QueueBuffer /\ output.state \in {"SINGLE", "CONTINUOUS"})
       => /\ output' = [output EXCEPT
                          !.pending_bufs = Append(@, next_buf)]
          /\ hw' = <<>>
          /\ sink' = sink]_vars

\* the third descriptor queued behind the second, with the first in slot 0
C23_Witness ==
  /\ op.fn = "vin_queue_buffer"
  /\ output.state = "SINGLE"
  /\ output.buf[0] = 1
  /\ output.pending_bufs = <<2, 3>>
  /\ sink = SinkOfBuf(line_id, 1)

(***************************************************************************)
(* C24.  vin_queue_buffer on a line in STOPPING moves last_buffer back    *)
(* into the active slot, clears last_buffer, sets the state to SINGLE and  *)
(* appends the new descriptor to pending, with no register write; the      *)
(* rotation that comes next installs the new descriptor.                   *)
(***************************************************************************)
\* the queue step itself
C24_QueueInStoppingRestores ==
  [][(QueueBuffer /\ output.state = "STOPPING")
       => /\ output' = [output EXCEPT
                          !.buf[output.active_buf] = output.last_buffer,
                          !.last_buffer = NULL,
                          !.state = "SINGLE",
                          !.pending_bufs = Append(@, next_buf)]
          /\ hw' = <<>>
          /\ sink' = sink]_vars

\* the rotation that follows a queue made in STOPPING
RotationAfterQueue(o, new_buf) ==
  vin_change_buffer(line_id, vin_buf_update_on_new(line_id, o, new_buf).out)

C24_QueueInStopping ==
  /\ C24_QueueInStoppingRestores
  /\ [](output.state = "STOPPING"
          => LET r == RotationAfterQueue(output, next_buf)
             IN /\ r.out.buf[r.out.active_buf] = next_buf
                /\ ApplyCalls(sink, r.hw) = SinkOfBuf(line_id, next_buf))

(***************************************************************************)
(* C25.  As claimed: every rotation event in SINGLE with pending empty     *)
(* sets the state to STOPPING, stores the active slot's descriptor in      *)
(* last_buffer, leaves the ready list alone and writes no address          *)
(* register; a completion event in STOPPING does not return last_buffer.   *)
(***************************************************************************)
\* a completion event in STOPPING keeps the frozen descriptor
CompletionKeepsLast ==
  \A ts \in Times :
    (BufferDone(ts) /\ output.state = "STOPPING" /\ output.last_buffer # NULL)
    => /\ Count(RetBufs(ret'), output.last_buffer) = 0
       /\ output'.last_buffer = output.last_buffer
       /\ output.last_buffer \in held'

\* what the claim says the rotation leaves behind
RotationFreezes ==
  /\ output' = [output EXCEPT !.state = "STOPPING",
                              !.buf[output.active_buf] = NULL,
                              !.last_buffer = output.buf[output.active_buf]]
  /\ output'.last_buffer # NULL
  /\ hw' = <<>>
  /\ sink' = sink

C26_SingleHasOneSlot ==
  output.state = "SINGLE"
  => /\ Cardinality({i \in 0 .. 1 : output.buf[i] # NULL}) = 1
     /\ output.last_buffer = NULL

(***************************************************************************)
(* C27.  The output state is never CONTINUOUS or RESERVED: it is one of    *)
(* OFF, IDLE, SINGLE, STOPPING; slot 1 never holds a descriptor and        *)
(* active_buf is 0.                                                        *)
(***************************************************************************)
C27_NoContinuous ==
  /\ output.state \in {"OFF", "IDLE", "SINGLE", "STOPPING"}
  /\ output.buf[1] = NULL
  /\ output.active_buf = 0

\* a rotation with a successor in pending and one more behind it, where a
\* two-slot engine would be in CONTINUOUS: slot 0 is refilled, slot 1 is not
C27_Witness ==
  /\ op.fn = "vin_change_buffer"
  /\ ~op.early
  /\ output.state = "SINGLE"
  /\ output.buf[0] = 2
  /\ output.ready_bufs = <<1>>
  /\ output.pending_bufs = <<3>>

(***************************************************************************)
(* C28.  On an enabled line with no stream-off, flush or second stream-on: *)
(* once a descriptor X and a later descriptor have been queued, X is       *)
(* eventually given back by the completion handler, with status DONE,      *)
(* provided rotation and completion events keep coming.                    *)
(***************************************************************************)
\* X was handed in and has been given back
GivenBack(X) == X < next_buf /\ X \notin held

C28_QueuedEventuallyDone ==
  /\ [](\A i \in 1 .. Len(ret) : ret[i].state = "DONE")
  /\ \A X \in 1 .. MaxBufs - 1 :
       (output.state # "OFF" /\ next_buf > X + 1) ~> GivenBack(X)

\* the second descriptor has come back after the third was queued
C28_Witness ==
  /\ op.fn = "vin_buffer_done"
  /\ output.state # "OFF"
  /\ next_buf > 3
  /\ GivenBack(1)
  /\ GivenBack(2)
  /\ 2 \in {ret[i].buf : i \in 1 .. Len(ret)}

(***************************************************************************)
(* C29.  The completion handler never gives back the descriptor queued     *)
(* last: every descriptor it returns as DONE was queued before a later     *)
(* one, so of the k descriptors queued so far at most k-1 have been        *)
(* returned as DONE (output.sequence counts the DONE returns since the     *)
(* enable).                                                                *)
(***************************************************************************)
\* the descriptor handed to vin_queue_buffer last (NULL before the first)
Newest == next_buf - 1

OffIffZero(state, count) == state = "OFF" <=> count = 0

C30_OffIffCountZero ==
  [][\A enable \in {0, 1}, ok \in BOOLEAN :
       /\ (/\ SetStream(enable, ok)
           /\ stream_count >= 0 /\ stream_count' >= 0
           /\ OffIffZero(output.state, stream_count))
          => OffIffZero(output'.state, stream_count')
       /\ (SetStream(enable, ok) /\ enable = 1 /\ stream_count > 0)
          => /\ output'.state = output.state
             /\ output'.buf[0] = output.buf[0]
             /\ output'.sequence = output.sequence
       /\ (SetStream(enable, ok) /\ enable = 0 /\ stream_count > 1)
          => output'.state = output.state]_vars

(***************************************************************************)
(* C31.  Whenever the line's output state is not OFF, the stream count of  *)
(* its module's dummy pool is at least 1 (the pool was allocated by the    *)
(* stream-on that took the count from 0 and has not been freed).           *)
(***************************************************************************)
C31_PoolCountedWhileOn ==
  output.state # "OFF" => dummy_buffer.stream_count >= 1

(***************************************************************************)
(* C32.  With every line linked, after each vin_set_power call the device  *)
(* power count is the sum of the lines' power counts.                      *)
(***************************************************************************)
\* the sum of line->power_count over the lines
LinePowerSum == power_count[VIN_LINE_WR] + power_count[VIN_LINE_ISP]

C32_DevCountIsSum ==
  (\A l \in Lines : remote_link[l] # "LINK_ERROR")
  => dev_power_count = LinePowerSum

=============================================================================
